---- MODULE Spec2Model ----
(***************************************************************************)
(* keyword-search-monitor: the search / dedup / notify pipeline of         *)
(* run_keywords.py and the redelivery script send_telegram_pending.py.     *)
(*                                                                         *)
(* The three persisted documents (history day files, activity.json,        *)
(* telegram_bot.json) are variables; a process is followed statement group *)
(* by statement group (pc), so that a kill between two file writes and a   *)
(* failing send in the middle of a pass are behaviours of the model.       *)
(***************************************************************************)
EXTENDS Integers, Sequences, FiniteSets, TLC

---------------------------------------------------------------------------
(* Bounds of the model *)

\* Number of run_keywords.py invocations explored.
MaxRuns == 3

\* Number of environment faults explored (a killed process, a document made
\* unparseable between two invocations).
MaxFaults == 1

\* Number of send_telegram_pending.py --resend-all passes explored.
MaxResends == 1

\* Number of _save_activity calls explored by the specification of
\* _save_activity alone.
MaxCalls == 3

---------------------------------------------------------------------------
(* Inputs *)

\* config.json "keywords", in configured order.
Keywords == <<"X", "Y">>

Urls == {"a", "b", "c"}

Titles == {"t1", "t2"}

\* Error texts a failed sendMessage call can return.
Errors == {"e1", "e2"}

\* A search result as search_google returns it (snippet and display_link are
\* carried along unread by the pipeline and are left out).
Result(link, title) == [link |-> link, title |-> title]

\* The result lists the provider returns for a keyword in the pipeline
\* specification: links distinct within a list (search_google drops repeated
\* links), "b" found under both keywords, with another title.
Web(keyword) ==
  IF keyword = "X"
    THEN { <<>>, <<Result("a", "t1")>>, <<Result("a", "t1"), Result("b", "t1")>> }
    ELSE { <<>>, <<Result("b", "t2"), Result("c", "t2")>> }

---------------------------------------------------------------------------
(* State *)

VARIABLES
  pc,                  \* position of the running process, "idle" when none runs
  clock,               \* number of run_keywords.py invocations so far
  env,                 \* environment of the running process: which credentials are set
  run_at,              \* main: run_at, <<day, tick>> (run_at[:10] is the day)
  kwIdx,               \* main: position of the keyword loop
  results_by_keyword,  \* main: ordered dict keyword -> results
  new_entries,         \* main: value returned by _save_activity
  bot_list,            \* in-memory notification list
  pending,             \* indices into bot_list of the entries selected for sending
  sendIdx,             \* position of the send loop in pending
  sent_count,          \* sends that succeeded in this pass
  first_error,         \* first error text of this pass, "" if none
  resend_all,          \* send_telegram_pending.py: --resend-all given
  historyDir,          \* output/history/<day>.json, per day
  activityFile,        \* output/activity.json
  botFile,             \* output/telegram_bot.json
  attempts,            \* history: the Notifier.send calls of the running pass
  delivered,           \* history: urls whose send succeeded at least once
  resends,             \* history: --resend-all passes so far
  faults,              \* history: kills and corruptions so far
  report,              \* history: how the last process was started and what it printed at its end
  bot_writes,          \* history: writes of telegram_bot.json by the current (or last) process
  killedPass           \* history: the delivery pass of a run killed since the last reconcile

vars == << pc, clock, env, run_at, kwIdx, results_by_keyword, new_entries,
           bot_list, pending, sendIdx, sent_count, first_error, resend_all,
           historyDir, activityFile, botFile,
           attempts, delivered, resends, faults,
           report, bot_writes, killedPass >>

memVars == << run_at, kwIdx, results_by_keyword, new_entries, bot_list,
              pending, sendIdx, sent_count, first_error, resend_all, attempts >>

histVars == << delivered, resends, faults >>

NoFaults == [kills |-> 0, corruptions |-> 0]

FaultCount == faults.kills + faults.corruptions

fileVars == << historyDir, activityFile, botFile >>

\* A document on disk: absent, parseable ("ok", with its content) or
\* unparseable ("corrupt").
Absent == [st |-> "absent", data |-> <<>>]

Doc(data) == [st |-> "ok", data |-> data]

Corrupt == [st |-> "corrupt", data |-> <<>>]

Days == 1 .. MaxRuns

\* The environment of a process: search-provider credentials and Telegram
\* credentials (TELEGRAM_BOT_TOKEN and TELEGRAM_GROUP_CHAT_ID) set or not.
Envs == [search : BOOLEAN, telegram : BOOLEAN]

NoEnv == [search |-> FALSE, telegram |-> FALSE]

NoRunAt == <<0, 0>>

Range(s) == { s[k] : k \in 1 .. Len(s) }

UrlsOf(list) == { list[k].url : k \in 1 .. Len(list) }

\* Nothing printed yet.
NoReport == [cmd |-> "", exit |-> "", total |-> 0, ok |-> 0, error |-> ""]

\* No delivery pass was killed.
NoPass == [urls |-> <<>>, sends |-> 0]

Init ==
  /\ pc = "idle"
  /\ clock = 0
  /\ env = NoEnv
  /\ run_at = NoRunAt
  /\ kwIdx = 0
  /\ results_by_keyword = <<>>
  /\ new_entries = <<>>
  /\ bot_list = <<>>
  /\ pending = <<>>
  /\ sendIdx = 0
  /\ sent_count = 0
  /\ first_error = ""
  /\ resend_all = FALSE
  /\ historyDir = [d \in Days |-> Absent]
  /\ activityFile = Absent
  /\ botFile = Absent
  /\ attempts = <<>>
  /\ delivered = {}
  /\ resends = 0
  /\ faults = NoFaults
  /\ report = NoReport
  /\ bot_writes = 0
  /\ killedPass = NoPass

\* The memory of a process is gone when it ends.
ClearMem ==
  /\ env' = NoEnv
  /\ run_at' = NoRunAt
  /\ kwIdx' = 0
  /\ results_by_keyword' = <<>>
  /\ new_entries' = <<>>
  /\ bot_list' = <<>>
  /\ pending' = <<>>
  /\ sendIdx' = 0
  /\ sent_count' = 0
  /\ first_error' = ""
  /\ resend_all' = FALSE
  /\ attempts' = <<>>

\* What a process has printed about its delivery pass when it ends by the
\* exit how: the number of pending entries ("sending N URLs", "i/N sent"),
\* the number of successful sends ("ok: n", "sent n URLs") and, only when no
\* send succeeded, the first error text.
Printed(cmd, how) ==
  [cmd |-> cmd, exit |-> how,
   total |-> IF how = "delivered" THEN Len(pending) ELSE 0,
   ok |-> IF how = "delivered" THEN sent_count ELSE 0,
   error |-> IF how = "delivered" /\ sent_count = 0 THEN first_error ELSE ""]

\* A process started as cmd ends (how: the exit taken): back to idle, memory
\* gone, its output left on the terminal.
ExitAs(cmd, how) ==
  /\ pc' = "idle"
  /\ ClearMem
  /\ report' = Printed(cmd, how)

\* The command line of the running process.
Cmd ==
  IF pc = "psend" THEN (IF resend_all THEN "resend-all" ELSE "pending") ELSE "run"

Exit(how) == ExitAs(Cmd, how)

---------------------------------------------------------------------------
(* google_search_tool.py *)

\* What the provider's HTTP endpoint can answer for a keyword: a 200 response
\* carrying a result list, a non-200 response, or no response at all (the
\* requests call raises a transport exception).
HttpOutcomes(keyword) ==
  { [kind |-> "ok", results |-> r] : r \in Web(keyword) }
    \cup { [kind |-> "status", results |-> <<>>],
           [kind |-> "transport", results |-> <<>>] }

\* search_google: the exception it raises ("" when none) and the list it returns.
search_google(keyword, search_creds, http) ==
  IF ~search_creds THEN [raises |-> "ValueError", results |-> <<>>]
  ELSE IF http.kind = "transport"
    THEN [raises |-> "ConnectionError", results |-> <<>>]
  ELSE IF http.kind = "status"
    THEN [raises |-> "RuntimeError", results |-> <<>>]
  ELSE [raises |-> "", results |-> http.results]

---------------------------------------------------------------------------
(* run_keywords.py: main, the keyword loop *)

\* d[key] = value on an insertion-ordered dict held as a sequence of pairs.
DictSet(d, key, value) ==
  IF \E k \in 1 .. Len(d) : d[k].keyword = key
    THEN [k \in 1 .. Len(d) |->
            IF d[k].keyword = key THEN [keyword |-> key, items |-> value] ELSE d[k]]
    ELSE Append(d, [keyword |-> key, items |-> value])

\* The day part of a timestamp, run_at[:10].
DateOf(stamp) == stamp[1]

\* datetime.utcnow() of the n-th invocation: two invocations per day.
UtcNow(n) == << (n + 1) \div 2, n >>

\* main, up to the keyword loop: load the config, take the timestamp.
StartRun ==
  /\ pc = "idle"
  /\ clock < MaxRuns
  /\ \E e \in Envs : env' = e
  /\ clock' = clock + 1
  /\ run_at' = UtcNow(clock + 1)
  /\ results_by_keyword' = <<>>
  /\ kwIdx' = 1
  /\ pc' = "search"
  /\ report' = NoReport
  /\ bot_writes' = 0
  /\ UNCHANGED << new_entries, bot_list, pending, sendIdx, sent_count,
                  first_error, resend_all, attempts, fileVars, histVars,
                  killedPass >>

\* One iteration of the keyword loop: ValueError and RuntimeError are caught
\* and leave an empty list; any other exception ends the process.
SearchKeyword ==
  /\ pc = "search"
  /\ kwIdx <= Len(Keywords)
  /\ \E http \in HttpOutcomes(Keywords[kwIdx]) :
       LET got == search_google(Keywords[kwIdx], env.search, http) IN
         IF got.raises \in {"", "ValueError", "RuntimeError"}
           THEN /\ results_by_keyword' =
                     DictSet(results_by_keyword, Keywords[kwIdx], got.results)
                /\ kwIdx' = kwIdx + 1
                /\ pc' = IF kwIdx = Len(Keywords) THEN "history" ELSE "search"
                /\ UNCHANGED << env, run_at, new_entries, bot_list, pending,
                                sendIdx, sent_count, first_error, resend_all,
                                attempts, report >>
           ELSE Exit("crashed")
  /\ UNCHANGED << clock, fileVars, histVars, bot_writes, killedPass >>

---------------------------------------------------------------------------
(* run_keywords.py: _save_history *)

\* A variant that writes a day file holding this run only.
save_history_Overwrite(stamp, results, file) ==
  Doc([date |-> DateOf(stamp),
       runs |-> << [run_at |-> stamp, results |-> results] >>])

\* The day file after appending this run; the file is created when absent.
save_history(stamp, results, file) ==
  LET data == IF file.st = "ok" THEN file.data
              ELSE [date |-> DateOf(stamp), runs |-> <<>>]
  IN Doc([data EXCEPT !.runs = Append(@, [run_at |-> stamp, results |-> results])])

\* main calls _save_history; json.load of an unparseable day file raises.
SaveHistory ==
  /\ pc = "history"
  /\ IF historyDir[DateOf(run_at)].st = "corrupt"
       THEN /\ Exit("crashed")
            /\ UNCHANGED historyDir
       ELSE /\ historyDir' = [historyDir EXCEPT ![DateOf(run_at)] =
                                save_history(run_at, results_by_keyword, @)]
            /\ pc' = "activity"
            /\ UNCHANGED << env, memVars, report >>
  /\ UNCHANGED << clock, activityFile, botFile, histVars, bot_writes, killedPass >>

---------------------------------------------------------------------------
(* run_keywords.py: _save_activity *)

ActivityEntry(url, first_seen, keyword, title) ==
  [url |-> url, first_seen |-> first_seen, keyword |-> keyword, title |-> title]

\* The (keyword, result) pairs in the order the two nested loops visit them.
RECURSIVE Flatten(_)
Flatten(d) ==
  IF d = <<>> THEN <<>>
  ELSE [k \in 1 .. Len(Head(d).items) |->
          [keyword |-> Head(d).keyword, r |-> Head(d).items[k]]]
       \o Flatten(Tail(d))

\* A variant of the loop body without the test on seen_urls.
ActivityStep_NoSeenTest(acc, stamp, keyword, r) ==
  IF r.link = "" THEN acc
  ELSE LET entry == ActivityEntry(r.link, stamp, keyword, r.title) IN
       [existing |-> Append(acc.existing, entry),
        seen_urls |-> acc.seen_urls \cup {r.link},
        new_entries |-> Append(acc.new_entries, entry)]

\* A variant of the loop body that forgets to add the link to seen_urls.
ActivityStep_NoSeenAdd(acc, stamp, keyword, r) ==
  IF r.link = "" \/ r.link \in acc.seen_urls THEN acc
  ELSE LET entry == ActivityEntry(r.link, stamp, keyword, r.title) IN
       [existing |-> Append(acc.existing, entry),
        seen_urls |-> acc.seen_urls,
        new_entries |-> Append(acc.new_entries, entry)]

\* A variant of the loop body that refreshes first_seen of a link seen again.
ActivityStep_Refresh(acc, stamp, keyword, r) ==
  IF r.link = "" THEN acc
  ELSE IF r.link \in acc.seen_urls
    THEN [acc EXCEPT !.existing =
            [k \in 1 .. Len(@) |->
               IF @[k].url = r.link THEN [@[k] EXCEPT !.first_seen = stamp] ELSE @[k]]]
  ELSE LET entry == ActivityEntry(r.link, stamp, keyword, r.title) IN
       [existing |-> Append(acc.existing, entry),
        seen_urls |-> acc.seen_urls \cup {r.link},
        new_entries |-> Append(acc.new_entries, entry)]

\* A variant of the loop body in which a link met again in the same run
\* takes the keyword and title of the later occurrence.
ActivityStep_LastWins(acc, stamp, keyword, r) ==
  IF r.link = "" THEN acc
  ELSE IF r.link \in acc.seen_urls
    THEN LET retitle(list) ==
               [k \in 1 .. Len(list) |->
                  IF list[k].url = r.link /\ list[k].first_seen = stamp
                    THEN ActivityEntry(r.link, stamp, keyword, r.title)
                    ELSE list[k]]
         IN [acc EXCEPT !.existing = retitle(@), !.new_entries = retitle(@)]
  ELSE LET entry == ActivityEntry(r.link, stamp, keyword, r.title) IN
       [existing |-> Append(acc.existing, entry),
        seen_urls |-> acc.seen_urls \cup {r.link},
        new_entries |-> Append(acc.new_entries, entry)]

\* The body of the inner loop for one result r of keyword: skipped when the
\* link is empty or already seen, else the link joins seen_urls and the entry
\* is appended to existing and to new_entries.
ActivityStep(acc, stamp, keyword, r) ==
  IF r.link = "" \/ r.link \in acc.seen_urls THEN acc
  ELSE LET entry == ActivityEntry(r.link, stamp, keyword, r.title) IN
       [existing |-> Append(acc.existing, entry),
        seen_urls |-> acc.seen_urls \cup {r.link},
        new_entries |-> Append(acc.new_entries, entry)]

RECURSIVE ActivityLoop(_, _, _)
ActivityLoop(acc, stamp, todo) ==
  IF todo = <<>> THEN acc
  ELSE ActivityLoop(ActivityStep(acc, stamp, Head(todo).keyword, Head(todo).r),
                    stamp, Tail(todo))

\* _save_activity on the loaded list: the list written back and the list returned.
save_activity(stamp, results, existing) ==
  ActivityLoop([existing |-> existing, seen_urls |-> UrlsOf(existing),
                new_entries |-> <<>>],
               stamp, Flatten(results))

\* main calls _save_activity; json.load of an unparseable activity.json raises.
SaveActivity ==
  /\ pc = "activity"
  /\ IF activityFile.st = "corrupt"
       THEN /\ Exit("crashed")
            /\ UNCHANGED activityFile
       ELSE LET out == save_activity(run_at, results_by_keyword, activityFile.data) IN
            /\ activityFile' = Doc(out.existing)
            /\ new_entries' = out.new_entries
            /\ pc' = "sync"
            /\ UNCHANGED << env, run_at, kwIdx, results_by_keyword, bot_list,
                            pending, sendIdx, sent_count, first_error,
                            resend_all, attempts, report >>
  /\ UNCHANGED << clock, historyDir, botFile, histVars, bot_writes, killedPass >>

---------------------------------------------------------------------------
(* run_keywords.py: _sync_telegram_bot_and_send *)

BotEntry(e, sent) ==
  [url |-> e.url, first_seen |-> e.first_seen, keyword |-> e.keyword,
   title |-> e.title, telegram_sent |-> sent]

\* The list read from telegram_bot.json: empty when the file is absent,
\* unparseable or not a list.
LoadBot(file) == IF file.st = "ok" THEN file.data ELSE <<>>

\* The body of the backfill loop and of the append loop for one source entry
\* e: skipped when its url is empty or already seen, else the url joins
\* seen_urls and the entry is appended with the given flag.
SyncStep(acc, e, sent) ==
  IF e.url = "" \/ e.url \in acc.seen_urls THEN acc
  ELSE [list |-> Append(acc.list, BotEntry(e, sent)),
        seen_urls |-> acc.seen_urls \cup {e.url}]

RECURSIVE SyncLoop(_, _, _)
SyncLoop(acc, todo, sent) ==
  IF todo = <<>> THEN acc
  ELSE SyncLoop(SyncStep(acc, Head(todo), sent), Tail(todo), sent)

\* A variant of the backfill that copies the activity entries as unsent.
Backfill_Unsent(acc, activity) ==
  IF acc.list = <<>> /\ activity.st # "absent"
    THEN SyncLoop(acc, activity.data, FALSE)
    ELSE acc

\* Backfill: only when the loaded list is empty and activity.json exists,
\* every activity entry is copied as already sent.
Backfill(acc, activity) ==
  IF acc.list = <<>> /\ activity.st # "absent"
    THEN SyncLoop(acc, activity.data, TRUE)
    ELSE acc

\* A variant that appends this run's entries as already sent.
Reconcile_NewAsSent(loaded, activity, added) ==
  SyncLoop(Backfill([list |-> loaded, seen_urls |-> UrlsOf(loaded)], activity),
           added, TRUE).list

\* The in-memory list after backfill and after appending this run's entries.
Reconcile(loaded, activity, added) ==
  SyncLoop(Backfill([list |-> loaded, seen_urls |-> UrlsOf(loaded)], activity),
           added, FALSE).list

\* A variant of the selection that takes every entry, sent or not.
Pending_All(list) == [k \in 1 .. Len(list) |-> k]

\* pending: the entries whose telegram_sent is False, in list order.
RECURSIVE PendingFrom(_, _)
PendingFrom(list, k) ==
  IF k > Len(list) THEN <<>>
  ELSE (IF list[k].telegram_sent = FALSE THEN <<k>> ELSE <<>>)
       \o PendingFrom(list, k + 1)

Pending(list) == PendingFrom(list, 1)

\* _sync_telegram_bot_and_send up to the send loop: load, backfill, append,
\* select; nothing pending or no credentials: write the list and return.
SyncReconcile ==
  /\ pc = "sync"
  /\ LET list == Reconcile(LoadBot(botFile), activityFile, new_entries)
         todo == Pending(list)
     IN IF todo = <<>>
          THEN /\ botFile' = Doc(list)
               /\ bot_writes' = bot_writes + 1
               /\ Exit("nothing")
        ELSE IF ~env.telegram
          THEN /\ botFile' = Doc(list)
               /\ bot_writes' = bot_writes + 1
               /\ Exit("nocreds")
        ELSE /\ bot_list' = list
             /\ pending' = todo
             /\ sendIdx' = 1
             /\ sent_count' = 0
             /\ first_error' = ""
             /\ pc' = "send"
             /\ UNCHANGED << env, run_at, kwIdx, results_by_keyword, new_entries,
                             resend_all, attempts, botFile, bot_writes, report >>
  /\ killedPass' = NoPass
  /\ UNCHANGED << clock, historyDir, activityFile, histVars >>

\* Notifier.send for one entry answers ok or one of the error texts.
SendOutcomes == {"ok"} \cup Errors

\* A variant of the loop body that marks the entry sent whatever the outcome.
SendStep_MarkAlways(list, count, error, k, outcome) ==
  [list |-> [list EXCEPT ![k].telegram_sent = TRUE],
   count |-> IF outcome = "ok" THEN count + 1 ELSE count,
   error |-> IF outcome # "ok" /\ error = "" THEN outcome ELSE error,
   next |-> 1]

\* A variant of the loop body that leaves the loop at the first failure.
SendStep_StopOnFailure(list, count, error, k, outcome) ==
  IF outcome = "ok"
    THEN [list |-> [list EXCEPT ![k].telegram_sent = TRUE],
          count |-> count + 1, error |-> error, next |-> 1]
    ELSE [list |-> list, count |-> count,
          error |-> IF error = "" THEN outcome ELSE error, next |-> Len(list) + 1]

\* The body of the send loop for entry number k of the list with the given
\* outcome: on success the entry is marked sent and counted, on failure the
\* first error text is kept; the loop goes on either way (next: the step of
\* the loop position).
SendStep(list, count, error, k, outcome) ==
  IF outcome = "ok"
    THEN [list |-> [list EXCEPT ![k].telegram_sent = TRUE],
          count |-> count + 1, error |-> error, next |-> 1]
    ELSE [list |-> list, count |-> count,
          error |-> IF error = "" THEN outcome ELSE error, next |-> 1]

\* One iteration of the send loop of either script; the call and its
\* success are noted in the history variables.
SendLoopBody ==
  /\ sendIdx <= Len(pending)
  /\ \E outcome \in SendOutcomes :
       LET k == pending[sendIdx]
           out == SendStep(bot_list, sent_count, first_error, k, outcome)
       IN /\ bot_list' = out.list
          /\ sent_count' = out.count
          /\ first_error' = out.error
          /\ sendIdx' = sendIdx + out.next
          /\ attempts' = Append(attempts, [url |-> bot_list[k].url,
                                           ok |-> (outcome = "ok")])
          /\ delivered' = IF outcome = "ok"
                            THEN delivered \cup {bot_list[k].url} ELSE delivered
  /\ UNCHANGED << pc, clock, env, run_at, kwIdx, results_by_keyword, new_entries,
                  pending, resend_all, fileVars, resends, faults,
                  report, bot_writes, killedPass >>

\* run_keywords.py: one iteration of the send loop.
SendOne ==
  /\ pc = "send"
  /\ SendLoopBody

\* A variant that writes the list and returns wherever the loop stands.
PersistBot_Early ==
  /\ pc = "send"
  /\ botFile' = Doc(bot_list)
  /\ bot_writes' = bot_writes + 1
  /\ Exit("delivered")
  /\ UNCHANGED << clock, historyDir, activityFile, histVars, killedPass >>

\* run_keywords.py: after the loop the list is written once.
PersistBot ==
  /\ pc = "send"
  /\ sendIdx > Len(pending)
  /\ botFile' = Doc(bot_list)
  /\ bot_writes' = bot_writes + 1
  /\ Exit("delivered")
  /\ UNCHANGED << clock, historyDir, activityFile, histVars, killedPass >>

---------------------------------------------------------------------------
(* send_telegram_pending.py: main *)

\* A variant of --resend-all that leaves the flags as loaded.
MarkAllUnsent_Keep(list) == list

\* --resend-all: every loaded entry is set to unsent.
MarkAllUnsent(list) ==
  [k \in 1 .. Len(list) |-> [list[k] EXCEPT !.telegram_sent = FALSE]]

\* main up to the send loop, flag: --resend-all given. Credentials, file
\* present, load, --resend-all, select; each early return as the code takes it.
\* The script reads the Telegram credentials only.
StartPending(flag) ==
  /\ pc = "idle"
  /\ flag => resends < MaxResends
  /\ \E e \in { x \in Envs : ~x.search } :
       LET cmd == IF flag THEN "resend-all" ELSE "pending" IN
       IF ~e.telegram
         THEN /\ ExitAs(cmd, "nocreds")
              /\ bot_writes' = 0
              /\ UNCHANGED << botFile, resends >>
       ELSE IF botFile.st = "absent"
         THEN /\ ExitAs(cmd, "nofile")
              /\ bot_writes' = 0
              /\ UNCHANGED << botFile, resends >>
       ELSE /\ resends' = IF flag THEN resends + 1 ELSE resends
            /\ LET loaded == LoadBot(botFile)
                   list == IF flag THEN MarkAllUnsent(loaded) ELSE loaded
                   todo == Pending(list)
               IN IF todo = <<>>
                    THEN /\ botFile' = IF flag THEN Doc(list) ELSE botFile
                         /\ bot_writes' = IF flag THEN 1 ELSE 0
                         /\ ExitAs(cmd, "nothing")
                    ELSE /\ env' = e
                         /\ report' = NoReport
                         /\ bot_writes' = 0
                         /\ resend_all' = flag
                         /\ bot_list' = list
                         /\ pending' = todo
                         /\ sendIdx' = 1
                         /\ sent_count' = 0
                         /\ first_error' = ""
                         /\ pc' = "psend"
                         /\ UNCHANGED << run_at, kwIdx, results_by_keyword,
                                         new_entries, attempts, botFile >>
  /\ killedPass' = NoPass
  /\ UNCHANGED << clock, historyDir, activityFile, delivered, faults >>

\* One iteration of the send loop.
PendingSendOne ==
  /\ pc = "psend"
  /\ SendLoopBody

\* After the loop the list is written once.
PendingPersist ==
  /\ pc = "psend"
  /\ sendIdx > Len(pending)
  /\ botFile' = Doc(bot_list)
  /\ bot_writes' = bot_writes + 1
  /\ Exit("delivered")
  /\ UNCHANGED << clock, historyDir, activityFile, histVars, killedPass >>

---------------------------------------------------------------------------
(* Environment faults *)

\* The running process is killed: nothing more is written.
Kill ==
  /\ pc # "idle"
  /\ FaultCount < MaxFaults
  /\ faults' = [faults EXCEPT !.kills = @ + 1]
  /\ killedPass' = IF pc = "send"
                     THEN [urls |-> [k \in 1 .. Len(pending) |-> bot_list[pending[k]].url],
                           sends |-> Len(attempts)]
                     ELSE NoPass
  /\ Exit("killed")
  /\ UNCHANGED << clock, fileVars, delivered, resends, bot_writes >>

\* Between two invocations a stored document becomes unparseable.
CorruptBot ==
  /\ pc = "idle"
  /\ FaultCount < MaxFaults
  /\ botFile.st = "ok"
  /\ botFile' = Corrupt
  /\ faults' = [faults EXCEPT !.corruptions = @ + 1]
  /\ UNCHANGED << pc, clock, env, memVars, historyDir, activityFile, delivered, resends,
                  report, bot_writes, killedPass >>

CorruptActivity ==
  /\ pc = "idle"
  /\ FaultCount < MaxFaults
  /\ activityFile.st = "ok"
  /\ activityFile' = Corrupt
  /\ faults' = [faults EXCEPT !.corruptions = @ + 1]
  /\ UNCHANGED << pc, clock, env, memVars, historyDir, botFile, delivered, resends,
                  report, bot_writes, killedPass >>

CorruptHistory ==
  /\ pc = "idle"
  /\ FaultCount < MaxFaults
  /\ \E d \in Days :
       /\ historyDir[d].st = "ok"
       /\ historyDir' = [historyDir EXCEPT ![d] = Corrupt]
  /\ faults' = [faults EXCEPT !.corruptions = @ + 1]
  /\ UNCHANGED << pc, clock, env, memVars, activityFile, botFile, delivered, resends,
                  report, bot_writes, killedPass >>

---------------------------------------------------------------------------
(* Specification of the pipeline *)

Next ==
  \/ StartRun
  \/ SearchKeyword
  \/ SaveHistory
  \/ SaveActivity
  \/ SyncReconcile
  \/ SendOne
  \/ PersistBot
  \/ StartPending(FALSE)
  \/ StartPending(TRUE)
  \/ PendingSendOne
  \/ PendingPersist
  \/ Kill
  \/ CorruptBot
  \/ CorruptActivity
  \/ CorruptHistory

Spec == Init /\ [][Next]_vars

---------------------------------------------------------------------------
(* Specification of _save_activity alone: called on the store it left, with *)
(* any result mapping, and called again with the mapping of the last call. *)

\* Result lists with distinct links, any titles.
ActWeb ==
  LET rs == { Result(u, t) : u \in {"a", "b"}, t \in Titles } IN
    {<<>>} \cup { <<r>> : r \in rs }
           \cup { <<p[1], p[2]>> : p \in { q \in rs \X rs : q[1].link # q[2].link } }

ActResults ==
  { << [keyword |-> Keywords[1], items |-> x],
       [keyword |-> Keywords[2], items |-> y] >> : x \in ActWeb, y \in ActWeb }

\* One call of _save_activity at the next timestamp.
CallSaveActivity(results) ==
  LET stamp == UtcNow(clock + 1)
      out == save_activity(stamp, results, activityFile.data)
  IN /\ clock < MaxCalls
     /\ clock' = clock + 1
     /\ run_at' = stamp
     /\ results_by_keyword' = results
     /\ activityFile' = Doc(out.existing)
     /\ new_entries' = out.new_entries
     /\ UNCHANGED << env, kwIdx, bot_list, pending, sendIdx, sent_count,
                     first_error, resend_all, attempts, historyDir, botFile,
                     histVars, report, bot_writes, killedPass >>

RecordNew ==
  /\ pc \in {"idle", "recorded", "repeated"}
  /\ \E results \in ActResults : CallSaveActivity(results)
  /\ pc' = "recorded"

RecordAgain ==
  /\ pc \in {"recorded", "repeated"}
  /\ CallSaveActivity(results_by_keyword)
  /\ pc' = "repeated"

ActNext ==
  \/ RecordNew
  \/ RecordAgain

ActSpec == Init /\ [][ActNext]_vars

---------------------------------------------------------------------------
(* Claims *)

\* The links of a result mapping.
FoundUrls(results) ==
  { Flatten(results)[k].r.link : k \in 1 .. Len(Flatten(results)) }

\* The entry of a persisted or in-memory list for a url.
HasEntry(list, url, sent) ==
  \E k \in 1 .. Len(list) : list[k].url = url /\ list[k].telegram_sent = sent

\* A run of run_keywords.py returns from _sync_telegram_bot_and_send (it is
\* not killed): from the reconcile step or after the send loop.
RunReturns == pc \in {"sync", "send"} /\ pc' = "idle" /\ faults' = faults

\* C1: from empty stores and with delivery unavailable, a first full run that
\* found k distinct urls leaves k activity entries and k queue entries, all
\* unsent; a later run on that queue that finds j unseen urls leaves k + j
\* queue entries, the j new ones unsent.
C1_FirstRunsLeaveUnsent ==
  [][ (RunReturns /\ pc = "sync" /\ ~env.telegram) =>
        /\ (botFile.st = "absent" /\ activityFile.data = new_entries) =>
             /\ Len(new_entries) = Cardinality(FoundUrls(results_by_keyword))
             /\ botFile'.data =
                  [k \in 1 .. Len(new_entries) |-> BotEntry(new_entries[k], FALSE)]
        /\ (/\ botFile.st = "ok"
            /\ UrlsOf(botFile.data) = UrlsOf(activityFile.data) \ UrlsOf(new_entries)
            /\ \A k \in 1 .. Len(botFile.data) : ~botFile.data[k].telegram_sent) =>
             /\ UrlsOf(new_entries) = FoundUrls(results_by_keyword) \ UrlsOf(botFile.data)
             /\ Len(botFile'.data) = Len(botFile.data) + Len(new_entries)
             /\ \A k \in 1 .. Len(new_entries) :
                  HasEntry(botFile'.data, new_entries[k].url, FALSE)
    ]_vars

\* C2: no notification is lost. Only an entry persisted as unsent is handed
\* to Notifier.send by a later run or redelivery, so a url can still be
\* delivered only if it is persisted as unsent: when a run with delivery
\* credentials returns (no fault so far), every url of the activity store has
\* been delivered or is persisted as unsent in the queue.
C2_NothingLost ==
  [][ (RunReturns /\ env.telegram /\ faults = NoFaults) =>
        \A k \in 1 .. Len(activityFile'.data) :
          \/ activityFile'.data[k].url \in delivered'
          \/ HasEntry(botFile'.data, activityFile'.data[k].url, FALSE)
    ]_vars

\* A Notifier.send call is made in this step; the call is the last of attempts'.
Sends == Len(attempts') = Len(attempts) + 1

LastCall == attempts'[Len(attempts')]

\* C3: as long as no process was killed and --resend-all was never used, a
\* send never succeeds for a url it already succeeded for, and no entry that
\* is persisted as sent is handed to Notifier.send.
C3_NoDuplicate ==
  [][ (Sends /\ resends = 0 /\ faults.kills = 0) =>
        /\ LastCall.ok => LastCall.url \notin delivered
        /\ ~HasEntry(botFile.data, LastCall.url, TRUE)
    ]_vars

\* C3 witness: a pending-only redelivery succeeds for a url that an earlier
\* pass had failed to deliver, while another url is delivered and persisted
\* as sent; nothing was killed or resent.
C3_Witness ==
  /\ pc = "psend"
  /\ resends = 0
  /\ faults.kills = 0
  /\ Len(attempts) >= 1
  /\ attempts[1].ok
  /\ HasEntry(botFile.data, attempts[1].url, FALSE)
  /\ \E u \in delivered : HasEntry(botFile.data, u, TRUE)

\* C4: after every run that returns, every url of the persisted activity
\* store is in the persisted notification queue.
C4_QueueSuperset ==
  [][ RunReturns => UrlsOf(activityFile'.data) \subseteq UrlsOf(botFile'.data) ]_vars

\* The flag a parseable queue document holds for a url changes from a to b
\* in this step.
FlagFlips(url, a, b) ==
  /\ botFile.st = "ok"
  /\ botFile'.st = "ok"
  /\ HasEntry(botFile.data, url, a)
  /\ HasEntry(botFile'.data, url, b)

\* C5: the persisted flag of a url turns from unsent to sent only when the
\* pass that writes it made a successful send for that url, and from sent to
\* unsent only when a --resend-all pass writes it.
C5_FlagTransitions ==
  [][ \A u \in Urls :
        /\ FlagFlips(u, FALSE, TRUE) =>
             \E k \in 1 .. Len(attempts) : attempts[k].url = u /\ attempts[k].ok
        /\ FlagFlips(u, TRUE, FALSE) => (pc = "psend" /\ resend_all)
    ]_vars

\* C5 witness: a --resend-all pass is about to write a list in which a url
\* persisted as sent stays unsent (its send failed) and a url persisted as
\* unsent is sent.
C5_Witness ==
  /\ pc = "psend"
  /\ resend_all
  /\ sendIdx > Len(pending)
  /\ \E u \in Urls : HasEntry(botFile.data, u, TRUE) /\ HasEntry(bot_list, u, FALSE)
  /\ \E u \in Urls : HasEntry(botFile.data, u, FALSE) /\ HasEntry(bot_list, u, TRUE)

\* The load / backfill / append / select part of a run is done (the process
\* is not killed before): it returns, or the send loop is entered.
ReconcileReturns == pc = "sync" /\ pc' # "sync" /\ faults' = faults

\* C6: when _sync_telegram_bot_and_send loads an empty list (file absent,
\* unparseable or empty) while the activity store holds N >= 1 entries, it
\* returns without entering the send loop and the queue it writes holds
\* exactly the N activity urls, each as sent.
C6_BackfillNotRenotify ==
  [][ (ReconcileReturns /\ LoadBot(botFile) = <<>> /\ Len(activityFile.data) >= 1) =>
        /\ pc' = "idle"
        /\ attempts' = <<>>
        /\ botFile'.st = "ok"
        /\ botFile'.data =
             [k \in 1 .. Len(activityFile.data) |-> BotEntry(activityFile.data[k], TRUE)]
    ]_vars

\* C6 witness: the queue document was made unparseable, a later run has
\* rewritten it with several entries, all sent, and no send was ever made.
C6_Witness ==
  /\ pc = "idle"
  /\ faults.corruptions = 1
  /\ resends = 0
  /\ delivered = {}
  /\ botFile.st = "ok"
  /\ activityFile.st = "ok"
  /\ Len(botFile.data) >= 2
  /\ UrlsOf(botFile.data) = UrlsOf(activityFile.data)
  /\ \A k \in 1 .. Len(botFile.data) : botFile.data[k].telegram_sent

\* A delivery pass of either script ends by writing the list.
PassWrites == pc \in {"send", "psend"} /\ pc' = "idle" /\ faults' = faults

\* C7: in a delivery pass the pending entries are all the unsent entries in
\* list order, each is attempted exactly once in that order whatever the
\* other sends answer, and the list written holds an entry as sent iff its
\* own send succeeded; the count of successes is n minus the failures.
C7_PartialFailureContained ==
  [][ PassWrites =>
        /\ \A k \in 1 .. Len(pending) - 1 : pending[k] < pending[k + 1]
        /\ \A j \in 1 .. Len(bot_list) :
             (j \notin Range(pending)) => bot_list[j].telegram_sent
        /\ Len(attempts) = Len(pending)
        /\ botFile'.st = "ok"
        /\ Len(botFile'.data) = Len(bot_list)
        /\ \A k \in 1 .. Len(pending) :
             /\ attempts[k].url = bot_list[pending[k]].url
             /\ botFile'.data[pending[k]].url = attempts[k].url
             /\ botFile'.data[pending[k]].telegram_sent = attempts[k].ok
        /\ sent_count =
             Len(pending) - Cardinality({ k \in 1 .. Len(attempts) : ~attempts[k].ok })
    ]_vars

\* C7 witness: a pass of a run over two pending entries in which the first
\* send failed and the second succeeded, about to write the list.
C7_Witness ==
  /\ pc = "send"
  /\ sendIdx > Len(pending)
  /\ Len(pending) = 2
  /\ ~attempts[1].ok
  /\ attempts[2].ok
  /\ sent_count = 1

\* C8: calling recordNew again with the results_by_keyword of the previous
\* call, at another run_at, returns no new entries and leaves the activity
\* document as the previous call left it.
C8_RecordNewIdempotent ==
  [][ (pc' = "repeated" /\ clock' = clock + 1)
        => (new_entries' = <<>> /\ activityFile' = activityFile) ]_vars

\* C8 witness: a third call repeating the second one, on a store the first
\* two calls had filled, with a url listed under both keywords.
C8_Witness ==
  /\ pc = "repeated"
  /\ run_at = UtcNow(3)
  /\ new_entries = <<>>
  /\ \E k \in 1 .. Len(activityFile.data) :
       activityFile.data[k].first_seen = UtcNow(1)
  /\ \E k \in 1 .. Len(activityFile.data) :
       activityFile.data[k].first_seen = UtcNow(2)
  /\ \E r1 \in Range(results_by_keyword[1].items),
        r2 \in Range(results_by_keyword[2].items) : r1.link = r2.link

\* C9: a parseable activity document stays parseable while a process runs,
\* and whatever is written to it keeps every entry it held, unchanged
\* (url, first_seen, keyword, title) and at its place.
C9_FirstSeenStable ==
  [][ /\ (pc # "idle" /\ activityFile.st = "ok") => activityFile'.st = "ok"
      /\ (activityFile.st = "ok" /\ activityFile'.st = "ok") =>
           \A k \in 1 .. Len(activityFile.data) :
             /\ k <= Len(activityFile'.data)
             /\ activityFile'.data[k] = activityFile.data[k]
    ]_vars

\* C9 witness: _save_activity has run on results that list, under another
\* keyword and with another title, a url recorded by an earlier run.
C9_Witness ==
  /\ pc = "sync"
  /\ \E k \in 1 .. Len(activityFile.data), m \in 1 .. Len(Flatten(results_by_keyword)) :
       LET e == activityFile.data[k]
           f == Flatten(results_by_keyword)[m]
       IN /\ f.r.link = e.url
          /\ f.keyword # e.keyword
          /\ f.r.title # e.title
          /\ e.first_seen # run_at

NoRepeatedUrl(list) ==
  \A j, k \in 1 .. Len(list) : list[j].url = list[k].url => j = k

\* C10: no two entries of the activity document and no two entries of the
\* queue document have the same url, in every state.
C10_UrlsUnique ==
  /\ NoRepeatedUrl(activityFile.data)
  /\ NoRepeatedUrl(botFile.data)

\* C10 witness: a run found one url under both keywords, recorded it as new,
\* and a --resend-all pass had been made before.
C10_Witness ==
  /\ pc = "sync"
  /\ resends = 1
  /\ \E r1 \in Range(results_by_keyword[1].items),
        r2 \in Range(results_by_keyword[2].items) :
       r1.link = r2.link /\ r1.link \in UrlsOf(new_entries)

\* C11: a --resend-all pass (credentials set, queue file present) starts
\* from the loaded list with every entry unsent and every entry pending, in
\* list order; when it ends each of the m + n entries was attempted exactly
\* once in that order, and the list written holds an entry as sent iff its
\* send succeeded.
C11_ResendAllAttemptsAll ==
  [][ /\ (pc = "idle" /\ pc' = "psend" /\ resend_all') =>
           /\ Len(bot_list') = Len(botFile.data)
           /\ \A k \in 1 .. Len(botFile.data) :
                /\ bot_list'[k].url = botFile.data[k].url
                /\ bot_list'[k].telegram_sent = FALSE
           /\ pending' = [k \in 1 .. Len(botFile.data) |-> k]
      /\ (PassWrites /\ pc = "psend" /\ resend_all) =>
           /\ Len(attempts) = Len(botFile.data)
           /\ botFile'.st = "ok"
           /\ Len(botFile'.data) = Len(botFile.data)
           /\ \A k \in 1 .. Len(botFile.data) :
                /\ attempts[k].url = botFile.data[k].url
                /\ botFile'.data[k].url = botFile.data[k].url
                /\ botFile'.data[k].telegram_sent = attempts[k].ok
    ]_vars

\* C11 witness: a --resend-all pass over a queue of three entries, sent and
\* unsent ones, has attempted all three, with a success and a failure, and
\* is about to write the list.
C11_Witness ==
  /\ pc = "psend"
  /\ resend_all
  /\ Len(botFile.data) = 3
  /\ Len(attempts) = 3
  /\ \E j, k \in 1 .. 3 :
       botFile.data[j].telegram_sent /\ ~botFile.data[k].telegram_sent
  /\ \E j, k \in 1 .. 3 : attempts[j].ok /\ ~attempts[k].ok

\* C12: unless the process is killed, an iteration of the keyword loop never
\* ends the run, whatever the provider answers: the keyword gets a result
\* list and the loop goes on to the next keyword or to _save_history.
C12_ProviderFailureContained ==
  [][ (pc = "search" /\ faults' = faults) =>
        /\ pc' \in {"search", "history"}
        /\ kwIdx' = kwIdx + 1
        /\ Len(results_by_keyword') = kwIdx
        /\ results_by_keyword'[kwIdx].keyword = Keywords[kwIdx]
    ]_vars

\* The positions of a run_keywords.py process.
RunPcs == {"search", "history", "activity", "sync", "send"}

\* C13: a run without search-provider credentials ends in the keyword loop
\* and writes nothing: the history day files, the activity document and the
\* queue document stay as they were.
C13_NoCredentialsNoPersist ==
  [][ (pc \in RunPcs /\ ~env.search) =>
        /\ pc' \in {"search", "idle"}
        /\ UNCHANGED fileVars
    ]_vars

\* The loaded queue holds an unsent entry, or is non-empty while this run
\* brings new entries: what makes entries pending after the reconcile.
PendingExist ==
  \/ \E k \in 1 .. Len(LoadBot(botFile)) : ~LoadBot(botFile)[k].telegram_sent
  \/ LoadBot(botFile) # <<>> /\ new_entries # <<>>

\* The entries of a list that are unsent, in list order.
Unsent(list) == SelectSeq(list, LAMBDA e : e.telegram_sent = FALSE)

\* C14: with entries pending and no Telegram credentials, a run makes no
\* send and writes the loaded list followed by every new entry as unsent;
\* the redelivery script without credentials makes no send and writes
\* nothing; a later pass hands exactly the persisted unsent entries (a run:
\* those and its own new entries) to Notifier.send.
C14_NoCredentialsKeepsPending ==
  [][ /\ (ReconcileReturns /\ ~env.telegram /\ PendingExist) =>
           /\ pc' = "idle"
           /\ attempts' = <<>>
           /\ delivered' = delivered
           /\ botFile'.st = "ok"
           /\ botFile'.data =
                LoadBot(botFile) \o
                  [k \in 1 .. Len(new_entries) |-> BotEntry(new_entries[k], FALSE)]
      /\ (/\ pc = "idle"
          /\ pc' = "idle"
          /\ faults' = faults
          /\ report'.cmd \in {"pending", "resend-all"}
          /\ report'.exit = "nocreds") =>
           (botFile' = botFile /\ delivered' = delivered)
      /\ (pc = "idle" /\ pc' = "psend" /\ ~resend_all') =>
           [k \in 1 .. Len(pending') |-> bot_list'[pending'[k]]] = Unsent(botFile.data)
      /\ (pc = "sync" /\ pc' = "send") =>
           [k \in 1 .. Len(pending') |-> bot_list'[pending'[k]]] =
             Unsent(LoadBot(botFile)) \o
               (IF LoadBot(botFile) = <<>> THEN <<>>
                ELSE [k \in 1 .. Len(new_entries) |-> BotEntry(new_entries[k], FALSE)])
    ]_vars

\* C14 witness: a run without Telegram credentials has ended on a queue that
\* now holds an entry backfilled as sent and two unsent entries recorded by
\* two runs; no send was ever made.
C14_Witness ==
  /\ pc = "idle"
  /\ report.cmd = "run"
  /\ report.exit = "nocreds"
  /\ bot_writes = 1
  /\ delivered = {}
  /\ botFile.st = "ok"
  /\ Len(botFile.data) = 3
  /\ botFile.data[1].telegram_sent
  /\ ~botFile.data[2].telegram_sent
  /\ ~botFile.data[3].telegram_sent
  /\ botFile.data[2].first_seen # botFile.data[3].first_seen

\* C15: after a run was killed in its delivery pass, having made at least one
\* send, the next run that reconciles the queue with credentials enters the
\* send loop with every url of the killed pass pending.
C15_CrashRedelivers ==
  [][ (ReconcileReturns /\ env.telegram /\ killedPass.sends >= 1) =>
        /\ pc' = "send"
        /\ \A u \in Range(killedPass.urls) :
             \E j \in 1 .. Len(pending') : bot_list'[pending'[j]].url = u
    ]_vars

\* C16: unless the process is killed, _save_history, _save_activity and the
\* reconcile never end the run before their document is written, also when
\* the stored document is unparseable: each leaves a parseable document.
C16_CorruptionNotFatal ==
  [][ (faults' = faults) =>
        /\ (pc = "history") =>
             (pc' = "activity" /\ historyDir'[DateOf(run_at)].st = "ok")
        /\ (pc = "activity") => (pc' = "sync" /\ activityFile'.st = "ok")
        /\ (pc = "sync") => (pc' = "send" \/ botFile'.st = "ok")
    ]_vars

\* C17: the error text kept by the send loop is that of the first failing
\* send, and a pass that made at least one send reports the number attempted,
\* the number succeeded and, when a send failed, that first error text.
C17_DeliveryReport ==
  [][ /\ (Sends /\ ~LastCall.ok) =>
           IF \A k \in 1 .. Len(attempts) : attempts[k].ok
             THEN first_error' \in Errors
             ELSE first_error' = first_error
      /\ (Sends /\ LastCall.ok) => first_error' = first_error
      /\ (PassWrites /\ Len(attempts) >= 1) =>
           /\ report'.total = Len(attempts)
           /\ report'.ok = Cardinality({ k \in 1 .. Len(attempts) : attempts[k].ok })
           /\ (\E k \in 1 .. Len(attempts) : ~attempts[k].ok) =>
                (first_error \in Errors /\ report'.error = first_error)
    ]_vars

\* C18: --resend-all writes the all-unsent list before its delivery pass
\* begins, and an invocation that ends at once (no credentials, nothing to
\* send) leaves a parseable queue document with every entry unsent.
C18_ResendAllPersistsFirst ==
  [][ /\ (pc = "idle" /\ pc' = "psend" /\ resend_all') =>
           botFile' = Doc(MarkAllUnsent(LoadBot(botFile)))
      /\ (/\ pc = "idle"
          /\ pc' = "idle"
          /\ faults' = faults
          /\ report'.cmd = "resend-all"
          /\ botFile.st = "ok") =>
           /\ botFile'.st = "ok"
           /\ \A k \in 1 .. Len(botFile'.data) : ~botFile'.data[k].telegram_sent
    ]_vars

\* C19: a run that returns from _sync_telegram_bot_and_send has written the
\* queue document exactly once, by one of the three exits; nothing is written
\* on entering the send loop or between two sends, and the write of the
\* delivery path comes after the send of the last pending entry.
C19_QueueWrittenOnce ==
  [][ /\ RunReturns =>
           /\ bot_writes' = 1
           /\ botFile'.st = "ok"
           /\ report'.exit \in {"nothing", "nocreds", "delivered"}
           /\ (pc = "send") => (Len(attempts) = Len(pending) /\ botFile'.data = bot_list)
      /\ (pc \in {"sync", "send"} /\ pc' = "send") =>
           (botFile' = botFile /\ bot_writes' = 0)
    ]_vars

\* C19 witness: a run has ended after a delivery pass of two sends, the
\* queue document written once.
C19_Witness ==
  /\ pc = "idle"
  /\ report.cmd = "run"
  /\ report.exit = "delivered"
  /\ report.total = 2
  /\ bot_writes = 1
  /\ botFile.st = "ok"

\* C20: _save_history leaves the day file of run_at's date (created when
\* absent) with the runs it held followed by one entry holding run_at and
\* the results as found, leaves every other day file as it was, and no other
\* step of a process changes a day file.
C20_HistoryAppendOnly ==
  [][ /\ (pc = "history" /\ pc' = "activity") =>
           LET d == DateOf(run_at)
               old == IF historyDir[d].st = "ok" THEN historyDir[d].data.runs ELSE <<>>
           IN /\ historyDir'[d].st = "ok"
              /\ historyDir'[d].data.date = d
              /\ historyDir'[d].data.runs =
                   Append(old, [run_at |-> run_at, results |-> results_by_keyword])
              /\ \A e \in Days \ {d} : historyDir'[e] = historyDir[e]
      /\ (pc \notin {"history", "idle"}) => historyDir' = historyDir
    ]_vars

\* C20 witness: the second run of a day has appended its entry, all result
\* lists empty, after the entry of the first run, which holds one url under
\* both keywords.
C20_Witness ==
  /\ pc = "activity"
  /\ run_at = UtcNow(2)
  /\ historyDir[1].st = "ok"
  /\ Len(historyDir[1].data.runs) = 2
  /\ historyDir[1].data.runs[2].run_at = run_at
  /\ \A k \in 1 .. Len(results_by_keyword) : results_by_keyword[k].items = <<>>
  /\ historyDir[1].data.runs[2].results = results_by_keyword
  /\ \E r1 \in Range(historyDir[1].data.runs[1].results[1].items),
        r2 \in Range(historyDir[1].data.runs[1].results[2].items) :
       r1.link = r2.link

\* _save_activity is called and returns in this step, in the pipeline or
\* on its own.
RecordNewReturns ==
  \/ pc = "activity" /\ pc' = "sync"
  \/ pc' \in {"recorded", "repeated"} /\ clock' = clock + 1

\* The position of the first occurrence of a link in a traversal.
FirstPos(flat, url) ==
  CHOOSE k \in 1 .. Len(flat) :
    /\ flat[k].r.link = url
    /\ \A j \in 1 .. k - 1 : flat[j].r.link # url

\* C21: the result mapping is traversed in configured keyword order, then
\* result order; _save_activity returns exactly one entry for each url found
\* that the store did not hold, with first_seen = run_at and the keyword and
\* title of the url's first occurrence in that traversal, lists the new
\* entries in the order of their first occurrences, and writes the store as
\* the old entries followed by the new ones.
C21_FirstEncounteredWins ==
  [][ RecordNewReturns =>
        LET flat == Flatten(results_by_keyword')
            old == activityFile.data
            new == new_entries'
        IN /\ [k \in 1 .. Len(results_by_keyword') |-> results_by_keyword'[k].keyword]
                = Keywords
           /\ UrlsOf(new) = FoundUrls(results_by_keyword') \ UrlsOf(old)
           /\ NoRepeatedUrl(new)
           /\ \A k \in 1 .. Len(new) :
                LET first == flat[FirstPos(flat, new[k].url)] IN
                  /\ new[k].keyword = first.keyword
                  /\ new[k].title = first.r.title
                  /\ new[k].first_seen = run_at'
           /\ \A j, k \in 1 .. Len(new) :
                j < k => FirstPos(flat, new[j].url) < FirstPos(flat, new[k].url)
           /\ activityFile' = Doc(old \o new)
    ]_vars

\* C21 witness: a run has recorded as new a url found under both keywords,
\* with different titles, together with urls found under one keyword only.
C21_Witness ==
  /\ pc = "sync"
  /\ Len(new_entries) = 3
  /\ \E r1 \in Range(results_by_keyword[1].items),
        r2 \in Range(results_by_keyword[2].items) :
       /\ r1.link = r2.link
       /\ r1.title # r2.title
       /\ r1.link \in UrlsOf(new_entries)

====
